---- MODULE Spec2Model ----
(***************************************************************************)
(* The INI document model (class IniMap): an ordered list of line records  *)
(* plus a global-key index and a section index that share the very same    *)
(* records.  Records live in a heap and are referred to by identifier, so   *)
(* that "the same object" is "the same identifier".                         *)
(*                                                                         *)
(* JavaScript strings are sequences of one-character strings; JavaScript   *)
(* values are tagged records.  A Map is a sequence of <<key, value>> pairs *)
(* in insertion order, and so is a plain object.                           *)
(***************************************************************************)
EXTENDS Integers, Sequences, FiniteSets, TLC

VARIABLES heap, lines, global, sections, formatting, last, ghost

vars == <<heap, lines, global, sections, formatting, last, ghost>>

(***************************************************************************)
(* Bounds of the model.                                                    *)
(***************************************************************************)
\* most lines of input one instance is given: one per set call, and the
\* lines of the text per parse call
MaxWork == 3
\* the same, for the instances that are only parsed into
MaxParseWork == 4
\* longest text, in lines, handed to parse by the main specification
MaxTextLines == 4
\* longest text, in characters, of the character-level specification
MaxText == 4
\* most top-level properties of an object handed to from
MaxProps == 2

\* longest raw value, in characters, of the value-level specification
MaxValue == 3

\* most lines of input given to an instance of the editing specification
MaxEditWork == 3

Max(a, b) == IF a > b THEN a ELSE b
Min(a, b) == IF a < b THEN a ELSE b

(***************************************************************************)
(* Values.                                                                 *)
(***************************************************************************)
Undefined == [t |-> "undefined"]
Null == [t |-> "null"]
NaN == [t |-> "NaN"]
Str(s) == [t |-> "string", v |-> s]
Num(n) == [t |-> "number", v |-> n]
Bool(b) == [t |-> "boolean", v |-> b]
Obj(entries) == [t |-> "object", v |-> entries]

\* truthiness of a value of type string | undefined
Truthy(x) == x.t = "string" /\ x.v # <<>>

isPlainObject(x) == x.t = "object"

(***************************************************************************)
(* Map (and plain object): get, has, set keep insertion order.             *)
(***************************************************************************)
MapHas(m, k) == \E i \in 1..Len(m) : m[i][1] = k

MapGet(m, k) == m[CHOOSE i \in 1..Len(m) : m[i][1] = k][2]

MapSet(m, k, v) ==
  IF MapHas(m, k)
  THEN [i \in 1..Len(m) |-> IF m[i][1] = k THEN <<k, v>> ELSE m[i]]
  ELSE Append(m, <<k, v>>)

MapKeys(m) == {m[i][1] : i \in 1..Len(m)}

\* Object.defineProperty(obj, key, {value, writable, enumerable, configurable})
DefineProperty(obj, key, value) == MapSet(obj, key, value)

(***************************************************************************)
(* LineOp                                                                  *)
(***************************************************************************)
LineOpDel == -1
LineOpAdd == 1

(***************************************************************************)
(* The instance as one record, so that the private methods are operators   *)
(* from instance to instance.                                              *)
(***************************************************************************)
Model ==
  [heap |-> heap, lines |-> lines, global |-> global,
   sections |-> sections, formatting |-> formatting]

\* new IniMap(formatting)
NewIniMap(fmt) ==
  [heap |-> <<>>, lines |-> <<>>, global |-> <<>>,
   sections |-> <<>>, formatting |-> fmt]

\* Array.prototype.splice / slice clamp their start index
ClampIndex(len, start) ==
  IF start < 0 THEN Max(len + start, 0) ELSE Min(start, len)

SpliceInsert(s, start, e) ==
  LET i == ClampIndex(Len(s), start)
  IN SubSeq(s, 1, i) \o <<e>> \o SubSeq(s, i + 1, Len(s))

SpliceDelete(s, start) ==
  LET i == ClampIndex(Len(s), start)
  IN SubSeq(s, 1, i) \o SubSeq(s, i + 2, Len(s))

Slice(s, start) == SubSeq(s, ClampIndex(Len(s), start) + 1, Len(s))

\* the loop of #appendOrDeleteLine over this.#lines.slice(start)
RECURSIVE ShiftLines(_, _, _, _, _, _)
ShiftLines(h, secs, ids, i, op, updateSection) ==
  IF i > Len(ids) THEN h
  ELSE
    LET id == ids[i]
        h1 == [h EXCEPT ![id].num = @ + op]
        isSec == h1[id].type = "section"
        h2 == IF isSec THEN [h1 EXCEPT ![id].end = @ + op] ELSE h1
        upd1 == IF isSec THEN FALSE ELSE updateSection
        hit == /\ upd1
               /\ h2[id].type = "value"
               /\ Truthy(h2[id].sec)
               /\ MapHas(secs, h2[id].sec.v)
        h3 == IF hit
              THEN [h2 EXCEPT ![MapGet(secs, h2[id].sec.v)].end = @ + op]
              ELSE h2
        upd2 == IF hit THEN FALSE ELSE upd1
    IN ShiftLines(h3, secs, ids, i + 1, op, upd2)

appendOrDeleteLine(m, id, op) ==
  LET input == m.heap[id]
      spliced == IF op = LineOpAdd
                 THEN SpliceInsert(m.lines, input.num - 1, id)
                 ELSE SpliceDelete(m.lines, input.num - 1)
      start == IF op = LineOpAdd THEN input.num ELSE input.num - 1
  IN [m EXCEPT !.lines = spliced,
               !.heap = ShiftLines(m.heap, m.sections, Slice(spliced, start),
                                   1, op, input.type = "comment")]

\* 1-based position of the first section line, 0 if there is none
FirstSection(m) ==
  IF \E i \in 1..Len(m.lines) : m.heap[m.lines[i]].type = "section"
  THEN CHOOSE i \in 1..Len(m.lines) :
         /\ m.heap[m.lines[i]].type = "section"
         /\ \A j \in 1..(i - 1) : m.heap[m.lines[j]].type # "section"
  ELSE 0

\* appendValue that puts a global value after the last line
appendValue_AtEnd(m, id) ==
  IF Len(m.lines) = 0
  THEN [m EXCEPT !.heap[id].num = 1, !.lines = Append(@, id)]
  ELSE IF Truthy(m.heap[id].sec)
  THEN appendOrDeleteLine(m, id, LineOpAdd)
  ELSE appendOrDeleteLine([m EXCEPT !.heap[id].num = Len(m.lines) + 1],
                          id, LineOpAdd)

appendValue(m, id) ==
  IF Len(m.lines) = 0
  THEN [m EXCEPT !.heap[id].num = 1, !.lines = Append(@, id)]
  ELSE IF Truthy(m.heap[id].sec)
  THEN appendOrDeleteLine(m, id, LineOpAdd)
  ELSE
    LET num == IF FirstSection(m) # 0 THEN FirstSection(m)
               ELSE Len(m.lines) + 1
    IN appendOrDeleteLine([m EXCEPT !.heap[id].num = num], id, LineOpAdd)

\* returns the instance and the identifier of the section record
getOrCreateSection(m, section) ==
  IF MapHas(m.sections, section)
  THEN [m |-> m, id |-> MapGet(m.sections, section)]
  ELSE
    LET id == Len(m.heap) + 1
        lineSection == [type |-> "section", num |-> Len(m.lines) + 1,
                        sec |-> section, map |-> <<>>,
                        end |-> Len(m.lines) + 1]
    IN [m |-> [m EXCEPT !.heap = Append(@, lineSection),
                        !.lines = Append(@, id),
                        !.sections = MapSet(@, section, id)],
        id |-> id]

\* set(keyOrSection, valueOrKey, value); a key is passed as Str(key)
set(m, keyOrSection, valueOrKey, value) ==
  IF valueOrKey.t = "string" /\ value # Undefined
  THEN
    LET got == getOrCreateSection(m, keyOrSection)
        m1 == got.m
        sid == got.id
        key == valueOrKey.v
    IN IF MapHas(m1.heap[sid].map, key)
       THEN [m1 EXCEPT !.heap[MapGet(m1.heap[sid].map, key)].val = value]
       ELSE
         LET m2 == [m1 EXCEPT !.heap[sid].end = @ + 1]
             lineValue == [type |-> "value", num |-> m2.heap[sid].end,
                           sec |-> Str(m2.heap[sid].sec), key |-> key,
                           val |-> value]
             id == Len(m2.heap) + 1
             m3 == appendValue([m2 EXCEPT !.heap = Append(@, lineValue)], id)
         IN [m3 EXCEPT !.heap[sid].map = MapSet(@, key, id)]
  ELSE
    LET lineValue == [type |-> "value", num |-> 0, sec |-> Undefined,
                      key |-> keyOrSection, val |-> valueOrKey]
        id == Len(m.heap) + 1
        m1 == appendValue([m EXCEPT !.heap = Append(@, lineValue)], id)
    IN [m1 EXCEPT !.global = MapSet(@, keyOrSection, id)]

(***************************************************************************)
(* toObject                                                                *)
(***************************************************************************)
RECURSIVE DefineAll(_, _, _, _)
\* one defineProperty per entry of a Map<string, LineValue>
DefineAll(h, obj, map, i) ==
  IF i > Len(map) THEN obj
  ELSE DefineAll(h, DefineProperty(obj, h[map[i][2]].key, h[map[i][2]].val),
                 map, i + 1)

RECURSIVE DefineSections(_, _, _, _)
DefineSections(h, obj, secs, i) ==
  IF i > Len(secs) THEN obj
  ELSE
    LET rec == h[secs[i][2]]
        section == DefineAll(h, <<>>, rec.map, 1)
    IN DefineSections(h, DefineProperty(obj, rec.sec, Obj(section)),
                      secs, i + 1)

toObject(m) ==
  DefineSections(m.heap, DefineAll(m.heap, <<>>, m.global, 1), m.sections, 1)

(***************************************************************************)
(* Strings.                                                                *)
(***************************************************************************)
LF == "\n"
CR == "\r"
ASSIGNMENT_MARK == "="

\* the white space String.prototype.trim and \S know, within the alphabet
WhiteSpace == {" ", "\t", LF, CR}

StartsWith(s, p) == Len(s) >= Len(p) /\ SubSeq(s, 1, Len(p)) = p

EndsWith(s, p) ==
  Len(s) >= Len(p) /\ SubSeq(s, Len(s) - Len(p) + 1, Len(s)) = p

RECURSIVE TrimStart(_)
TrimStart(s) ==
  IF s # <<>> /\ Head(s) \in WhiteSpace THEN TrimStart(Tail(s)) ELSE s

RECURSIVE TrimEnd(_)
TrimEnd(s) ==
  IF s # <<>> /\ s[Len(s)] \in WhiteSpace
  THEN TrimEnd(SubSeq(s, 1, Len(s) - 1)) ELSE s

Trim(s) == TrimEnd(TrimStart(s))

\* String.prototype.indexOf of one character: 0-based, -1 when absent
IndexOf(s, c) ==
  IF \E i \in 1..Len(s) : s[i] = c
  THEN (CHOOSE i \in 1..Len(s) :
          s[i] = c /\ \A j \in 1..(i - 1) : s[j] # c) - 1
  ELSE -1

Includes(s, c) == \E i \in 1..Len(s) : s[i] = c

\* String.prototype.substring(from, to) and substring(from), 0-based
Substring(s, from, to) == SubSeq(s, from + 1, to)
SubstringFrom(s, from) == SubSeq(s, from + 1, Len(s))

\* NON_WHITESPACE_REGEXP.test(s)
NON_WHITESPACE_REGEXP(s) == \E i \in 1..Len(s) : s[i] \notin WhiteSpace

trimQuotes(value) ==
  IF StartsWith(value, <<"\"">>) /\ EndsWith(value, <<"\"">>)
  THEN SubSeq(value, 2, Len(value) - 1)
  ELSE value

isComment(input) ==
  \/ input = <<>>
  \/ StartsWith(input, <<"#">>)
  \/ StartsWith(input, <<";">>)
  \/ StartsWith(input, <<"/", "/">>)

\* isSection returns true, returns false, or throws
isSection(input) == StartsWith(input, <<"[">>) /\ EndsWith(input, <<"]">>)
isSectionThrows(input) ==
  StartsWith(input, <<"[">>) /\ ~EndsWith(input, <<"]">>)

(***************************************************************************)
(* Number(value) for the strings of the model: white space is trimmed, the *)
(* empty string is 0, a run of decimal digits is its value; no other       *)
(* numeric literal can be written with the characters of the model.        *)
(***************************************************************************)
Digits == <<"0", "1", "2", "3", "4", "5", "6", "7", "8", "9">>

IsDigit(c) == \E d \in 1..10 : Digits[d] = c

DigitValue(c) == (CHOOSE d \in 1..10 : Digits[d] = c) - 1

RECURSIVE DecimalValue(_)
DecimalValue(s) ==
  IF s = <<>> THEN 0
  ELSE 10 * DecimalValue(SubSeq(s, 1, Len(s) - 1)) + DigitValue(s[Len(s)])

ToNumber(value) ==
  LET s == Trim(value)
  IN IF \A i \in 1..Len(s) : IsDigit(s[i]) THEN Num(DecimalValue(s)) ELSE NaN

\* the default reviver of parse
reviver(value) ==
  IF ToNumber(value) # NaN /\ ~Includes(value, "\"") THEN ToNumber(value)
  ELSE IF value = <<"n", "u", "l", "l">> THEN Null
  ELSE IF value = <<"t", "r", "u", "e">> \/ value = <<"f", "a", "l", "s", "e">>
  THEN Bool(value = <<"t", "r", "u", "e">>)
  ELSE Str(trimQuotes(value))

(***************************************************************************)
(* #readTextLines: the lines the generator yields, each with the line      *)
(* terminator that follows it (the empty string after the last line).      *)
(***************************************************************************)
\* readTextLines without the look-ahead for '\n' after '\r'
RECURSIVE readTextLines_NoCRLF(_, _, _)
readTextLines_NoCRLF(text, i, line) ==
  IF i > Len(text) THEN <<[line |-> line, brk |-> <<>>]>>
  ELSE
    LET char == text[i]
    IN IF char = LF \/ char = CR
       THEN <<[line |-> line, brk |-> <<char>>]>>
            \o readTextLines_NoCRLF(text, i + 1, <<>>)
       ELSE readTextLines_NoCRLF(text, i + 1, Append(line, char))

RECURSIVE readTextLines(_, _, _)
readTextLines(text, i, line) ==
  IF i > Len(text) THEN <<[line |-> line, brk |-> <<>>]>>
  ELSE
    LET char == text[i]
    IN IF char = LF \/ char = CR
       THEN IF char = CR /\ i + 1 <= Len(text) /\ text[i + 1] = LF
            THEN <<[line |-> line, brk |-> <<CR, LF>>]>>
                 \o readTextLines(text, i + 2, <<>>)
            ELSE <<[line |-> line, brk |-> <<char>>]>>
                 \o readTextLines(text, i + 1, <<>>)
       ELSE readTextLines(text, i + 1, Append(line, char))

\* the generator resumes after a yield: the terminator is recorded once
noteLineBreak(m, brk) ==
  IF ~Truthy(m.formatting.lineBreak)
  THEN [m EXCEPT !.formatting.lineBreak = Str(brk)]
  ELSE m

NoError == [line |-> 0, kind |-> "none"]
SyntaxError(kind, lineNumber) == [line |-> lineNumber, kind |-> kind]

\* pushes a record on #lines; its identifier is Len(m.heap) + 1
PushLine(m, rec) ==
  [m EXCEPT !.heap = Append(@, rec), !.lines = Append(@, Len(m.heap) + 1)]

\* inferPretty without the test for undefined
inferPretty_EveryLine(m, leftHand, rightHand) ==
  [m EXCEPT !.formatting.pretty =
     Bool(EndsWith(leftHand, <<" ">>) /\ StartsWith(rightHand, <<" ">>))]

\* formatting.pretty is inferred from the two sides of the assignment mark
inferPretty(m, leftHand, rightHand) ==
  IF m.formatting.pretty = Undefined
  THEN [m EXCEPT !.formatting.pretty =
          Bool(EndsWith(leftHand, <<" ">>) /\ StartsWith(rightHand, <<" ">>))]
  ELSE m

\* attachValue without the test for the current section
attachValue_GlobalOnly(m, lineNumber, currentSection, key, value) ==
  LET id == Len(m.heap) + 1
      lineValue == [type |-> "value", num |-> lineNumber,
                    sec |-> Undefined, key |-> key, val |-> reviver(value)]
  IN PushLine([m EXCEPT !.global = MapSet(@, key, id)], lineValue)

\* the record of a key/value line is attached to the current section, or to
\* the global keys; currentSection is the identifier of the section record,
\* 0 for undefined
attachValue(m, lineNumber, currentSection, key, value) ==
  LET id == Len(m.heap) + 1
  IN IF currentSection # 0
     THEN
       LET lineValue == [type |-> "value", num |-> lineNumber,
                         sec |-> Str(m.heap[currentSection].sec),
                         key |-> key, val |-> reviver(value)]
           m1 == [m EXCEPT !.heap[currentSection].map = MapSet(@, key, id)]
           m2 == PushLine(m1, lineValue)
       IN [m2 EXCEPT !.heap[currentSection].end = lineNumber]
     ELSE
       LET lineValue == [type |-> "value", num |-> lineNumber,
                         sec |-> Undefined, key |-> key,
                         val |-> reviver(value)]
       IN PushLine([m EXCEPT !.global = MapSet(@, key, id)], lineValue)

\* one iteration of the for loop of parse on the line of number lineNumber:
\* the instance, the current section and the SyntaxError thrown
parseLine(m, trimmed, lineNumber, currentSection) ==
  IF isComment(trimmed)
  THEN [m |-> PushLine(m, [type |-> "comment", num |-> lineNumber,
                           val |-> trimmed]),
        cur |-> currentSection, err |-> NoError]
  ELSE IF isSectionThrows(trimmed)
  THEN [m |-> m, cur |-> currentSection,
        err |-> SyntaxError("end of INI section", lineNumber)]
  ELSE IF isSection(trimmed)
  THEN
    LET sec == Substring(trimmed, 1, Len(trimmed) - 1)
        id == Len(m.heap) + 1
        rec == [type |-> "section", num |-> lineNumber, sec |-> sec,
                map |-> <<>>, end |-> lineNumber]
    IN IF ~NON_WHITESPACE_REGEXP(sec)
       THEN [m |-> m, cur |-> currentSection,
             err |-> SyntaxError("empty section name", lineNumber)]
       ELSE [m |-> [PushLine(m, rec) EXCEPT !.sections = MapSet(@, sec, id)],
             cur |-> id, err |-> NoError]
  ELSE
    LET assignmentPos == IndexOf(trimmed, ASSIGNMENT_MARK)
        leftHand == Substring(trimmed, 0, assignmentPos)
        rightHand == SubstringFrom(trimmed, assignmentPos + 1)
    IN IF assignmentPos = -1
       THEN [m |-> m, cur |-> currentSection,
             err |-> SyntaxError("token", lineNumber)]
       ELSE IF assignmentPos = 0
       THEN [m |-> m, cur |-> currentSection,
             err |-> SyntaxError("empty key name", lineNumber)]
       ELSE [m |-> attachValue(inferPretty(m, leftHand, rightHand),
                               lineNumber, currentSection,
                               Trim(leftHand), Trim(rightHand)),
             cur |-> currentSection, err |-> NoError]

\* the for loop of parse over the lines of the generator, from the line of
\* number lineNumber on
RECURSIVE parseLines(_, _, _, _)
parseLines(m0, toks, lineNumber, currentSection) ==
  IF lineNumber > Len(toks) THEN [m |-> m0, err |-> NoError]
  ELSE
    LET m == IF lineNumber > 1
             THEN noteLineBreak(m0, toks[lineNumber - 1].brk) ELSE m0
        r == parseLine(m, Trim(toks[lineNumber].line), lineNumber,
                       currentSection)
    IN IF r.err # NoError THEN [m |-> r.m, err |-> r.err]
       ELSE parseLines(r.m, toks, lineNumber + 1, r.cur)

\* parse(text) with the default reviver: the instance it leaves and the
\* SyntaxError it throws (NoError when it returns)
parse(m, text) == parseLines(m, readTextLines(text, 1, <<>>), 1, 0)

(***************************************************************************)
(* from                                                                    *)
(***************************************************************************)
\* the comparator of from, on two entries <<key, value>>
sort(a, b) ==
  IF isPlainObject(a[2]) THEN 1
  ELSE IF isPlainObject(b[2]) THEN -1
  ELSE 0

\* the binary search of the engine's insertion sort: arr[low..start-1] is
\* sorted, the result is the position the pivot is moved to
RECURSIVE SortSearch(_, _, _, _)
SortSearch(arr, pivot, left, right) ==
  IF left >= right THEN left
  ELSE
    LET mid == left + ((right - left) \div 2)
    IN IF sort(pivot, arr[mid]) < 0
       THEN SortSearch(arr, pivot, left, mid)
       ELSE SortSearch(arr, pivot, mid + 1, right)

\* Array.prototype.sort with the comparator above (short arrays are sorted
\* by binary insertion)
RECURSIVE ArraySort(_, _)
ArraySort(arr, start) ==
  IF start > Len(arr) THEN arr
  ELSE
    LET pivot == arr[start]
        left == SortSearch(arr, pivot, 1, start)
        moved == SubSeq(arr, 1, left - 1) \o <<pivot>>
                 \o SubSeq(arr, left, start - 1)
                 \o SubSeq(arr, start + 1, Len(arr))
    IN ArraySort(moved, start + 1)

RECURSIVE fromSection(_, _, _, _)
\* the inner loop of from: ini.set(key, sectionKey, sectionValue)
fromSection(m, key, entries, i) ==
  IF i > Len(entries) THEN m
  ELSE fromSection(set(m, key, Str(entries[i][1]), entries[i][2]),
                   key, entries, i + 1)

RECURSIVE fromEntries(_, _, _)
\* the outer loop of from over the sorted entries
fromEntries(m, entries, i) ==
  IF i > Len(entries) THEN m
  ELSE
    LET key == entries[i][1]
        val == entries[i][2]
    IN IF isPlainObject(val)
       THEN fromEntries(fromSection(m, key, val.v, 1), entries, i + 1)
       ELSE fromEntries(set(m, key, val, Undefined), entries, i + 1)

\* IniMap.from(input, formatting): input is Obj(entries) or Str(text)
from(input, fmt) ==
  IF input.t = "object"
  THEN [m |-> fromEntries(NewIniMap(fmt), ArraySort(input.v, 2), 1),
        err |-> NoError]
  ELSE parse(NewIniMap(fmt), input.v)

(***************************************************************************)
(* The inputs of the calls.                                                *)
(***************************************************************************)
Keys == {<<"k">>, <<"j">>}

\* set does not validate the section name: the empty string is accepted
SectionNames == Keys \cup {<<>>}

Values == {Str(<<"k">>), Num(1), Bool(TRUE), Null, Undefined}

\* the formatting argument of the constructor and of from
CtorFormattings ==
  {[pretty |-> p, lineBreak |-> Undefined] :
     p \in {Undefined, Bool(TRUE), Bool(FALSE)}}

\* the lines the texts of the main specification are made of
LineTemplates ==
  { <<"[", "k", "]">>, <<"[", "j", "]">>,
    <<"k", "=", "1">>, <<"k", " ", "=", " ", "k">>, <<"j", " ", "=", " ">>,
    <<"#">>, <<"[", "k">> }

RECURSIVE Join(_, _)
Join(ls, term) ==
  IF Len(ls) = 0 THEN <<>>
  ELSE IF Len(ls) = 1 THEN ls[1]
  ELSE ls[1] \o term \o Join(Tail(ls), term)

\* the texts of exactly n lines
TextsOfLines ==
  [n \in 1..MaxTextLines |->
     IF n = 1 THEN LineTemplates
     ELSE {Join(ls, <<LF>>) : ls \in [1..n -> LineTemplates]}]

TextsUpTo(n) == UNION {TextsOfLines[i] : i \in 1..Min(n, MaxTextLines)}

\* the characters of the character-level specification
Chars == {"[", "]", "=", " ", "#", ";", "/", "k", LF, CR}

CharTexts == UNION {[1..n -> Chars] : n \in 0..MaxText}

\* objects of scalars: ordered, with distinct property names
KeySeqs ==
  {ks \in UNION {[1..n -> Keys] : n \in 0..MaxProps} :
     \A i, j \in 1..Len(ks) : i # j => ks[i] # ks[j]}

ObjectsOf(vals) ==
  UNION {{Obj([i \in 1..Len(ks) |-> <<ks[i], vs[i]>>]) :
            vs \in [1..Len(ks) -> vals]} : ks \in KeySeqs}

\* the objects handed to from: scalars and one level of nested scalars
FromObjects == ObjectsOf(Values \cup ObjectsOf(Values))

(***************************************************************************)
(* The state machine: one instance and the calls made on it.  last is the  *)
(* last call: its arguments, the number of lines (base), the pretty flag   *)
(* and the records (before) it found, the SyntaxError it threw, and the    *)
(* lines of input the instance was given so far (work).  ghost records what the set calls     *)
(* made on an instance built empty asked for.                              *)
(***************************************************************************)
Call(op, args) == [op |-> op, args |-> args]

\* the records and the line sequence a call finds
Before ==
  [heap |-> heap, lines |-> lines, global |-> global, sections |-> sections]

NoGhost == [valid |-> FALSE, g |-> <<>>, s |-> <<>>]

Commit(m) ==
  /\ heap' = m.heap
  /\ lines' = m.lines
  /\ global' = m.global
  /\ sections' = m.sections
  /\ formatting' = m.formatting

\* new IniMap(formatting), formatting one of fmts
InitWith(fmts) ==
  /\ \E fmt \in fmts :
       /\ heap = NewIniMap(fmt).heap
       /\ lines = NewIniMap(fmt).lines
       /\ global = NewIniMap(fmt).global
       /\ sections = NewIniMap(fmt).sections
       /\ formatting = NewIniMap(fmt).formatting
  /\ last = [call |-> Call("new", <<>>), base |-> 0, err |-> NoError,
             work |-> 0, pretty |-> Undefined, before |-> Before]
  /\ ghost = [valid |-> TRUE, g |-> <<>>, s |-> <<>>]

\* new IniMap()
Init == InitWith({[pretty |-> Undefined, lineBreak |-> Undefined]})

\* new IniMap(formatting)
InitAny == InitWith(CtorFormattings)

\* ini.set(key, value)
SetGlobal(key, value) ==
  \E m \in {set(Model, key, value, Undefined)} :
     /\ Commit(m)
     /\ last' = [call |-> Call("set", <<key, value>>), base |-> Len(lines),
                 err |-> NoError, work |-> last.work + 1,
                 pretty |-> formatting.pretty, before |-> Before]
     /\ ghost' = IF ghost.valid
                 THEN [ghost EXCEPT !.g = MapSet(@, key, value)]
                 ELSE ghost

\* ini.set(section, key, value)
SetSection(section, key, value) ==
  \E m \in {set(Model, section, Str(key), value)} :
     /\ Commit(m)
     /\ last' = [call |-> Call("set", <<section, key, value>>),
                 base |-> Len(lines), err |-> NoError,
                 work |-> last.work + 1, pretty |-> formatting.pretty,
                 before |-> Before]
     /\ ghost' = IF ghost.valid
                 THEN [ghost EXCEPT !.s =
                         MapSet(@, section,
                                MapSet(IF MapHas(@, section)
                                       THEN MapGet(@, section) ELSE <<>>,
                                       key, value))]
                 ELSE ghost

\* ini.parse(text); a SyntaxError leaves the instance as it is at the throw
Parse(text) ==
  \E r \in {parse(Model, text)} :
     /\ Commit(r.m)
     /\ last' = [call |-> Call("parse", <<text>>), base |-> Len(lines),
                 err |-> r.err,
                 work |-> last.work + Len(readTextLines(text, 1, <<>>)),
                 pretty |-> formatting.pretty, before |-> Before]
     /\ ghost' = NoGhost

\* IniMap.from(object, formatting) and IniMap.from(text, formatting): the
\* instance is a new one, whatever the program held before, so the call is
\* made by a program that holds a new instance
From(input, fmt) ==
  \E r \in {from(input, fmt)} :
     /\ Commit(r.m)
     /\ last' = [call |-> Call("from", <<input, fmt>>), base |-> 0,
                 err |-> r.err, work |-> MaxWork,
                 pretty |-> fmt.pretty,
                 before |-> [heap |-> <<>>, lines |-> <<>>,
                             global |-> <<>>, sections |-> <<>>]]
     /\ ghost' = NoGhost

DoSetGlobal ==
  /\ last.work < MaxWork
  /\ \E key \in Keys, value \in Values : SetGlobal(key, value)

DoSetSection ==
  /\ last.work < MaxWork
  /\ \E section \in SectionNames, key \in Keys, value \in Values :
       SetSection(section, key, value)

DoParse ==
  /\ last.work < MaxWork
  /\ \E text \in TextsUpTo(MaxWork - last.work) : Parse(text)

DoFromObject ==
  /\ last.call.op = "new"
  /\ \E input \in FromObjects, fmt \in CtorFormattings : From(input, fmt)

DoFromText ==
  /\ last.call.op = "new"
  /\ \E text \in TextsUpTo(MaxTextLines), fmt \in CtorFormattings :
       From(Str(text), fmt)

Next ==
  \/ DoSetGlobal
  \/ DoSetSection
  \/ DoParse

Spec == Init /\ [][Next]_vars

\* the instances from builds
NextFrom ==
  \/ DoFromObject
  \/ DoFromText

SpecFrom == Init /\ [][NextFrom]_vars

\* instances that are only parsed into, whatever formatting they were built
\* with
DoParseOnly ==
  /\ last.work < MaxParseWork
  /\ \E text \in TextsUpTo(MaxParseWork - last.work) : Parse(text)

NextParse == DoParseOnly

SpecParse == InitAny /\ [][NextParse]_vars

\* the same calls on an instance constructed without formatting options
SpecParseDefault == Init /\ [][NextParse]_vars

\* the character-level specification: one parse of any short text
DoParseChars ==
  /\ last.call.op = "new"
  /\ \E text \in CharTexts : Parse(text)

NextText == DoParseChars

SpecText == Init /\ [][NextText]_vars

\* the editing specification: the calls of the main specification with
\* fewer values (a value only matters to set by being undefined or not)
EditValues == {Num(1), Undefined}

DoEditSetGlobal ==
  /\ last.work < MaxEditWork
  /\ \E key \in Keys, value \in EditValues : SetGlobal(key, value)

DoEditSetSection ==
  /\ last.work < MaxEditWork
  /\ \E section \in SectionNames, key \in Keys, value \in EditValues :
       SetSection(section, key, value)

DoEditParse ==
  /\ last.work < MaxEditWork
  /\ \E text \in TextsUpTo(MaxEditWork - last.work) : Parse(text)

NextEdit ==
  \/ DoEditSetGlobal
  \/ DoEditSetSection
  \/ DoEditParse

SpecEdit == Init /\ [][NextEdit]_vars

\* the loading specification: a text is parsed into the new instance, which
\* is then edited by set calls
DoLoad ==
  /\ last.call.op = "new"
  /\ \E text \in TextsUpTo(MaxEditWork - 1) : Parse(text)

NextLoad ==
  \/ DoLoad
  \/ DoEditSetGlobal
  \/ DoEditSetSection

SpecLoad == Init /\ [][NextLoad]_vars

\* the value-level specification: one parse of the line k=<raw value>
ValueChars == {"0", "1", "\"", "k", " "}

ValueTexts ==
  UNION {[1..n -> ValueChars] : n \in 0..MaxValue}
    \cup {<<"n", "u", "l", "l">>, <<"t", "r", "u", "e">>,
          <<"f", "a", "l", "s", "e">>, <<"\"", "n", "u", "l", "l", "\"">>}

DoParseValue ==
  /\ last.call.op = "new"
  /\ \E raw \in ValueTexts : Parse(<<"k", ASSIGNMENT_MARK>> \o raw)

NextValue == DoParseValue

SpecValue == Init /\ [][NextValue]_vars

(***************************************************************************)
(* Vocabulary of the properties.                                           *)
(***************************************************************************)
\* the last call was op with n arguments
LastIs(op, n) == last.call.op = op /\ Len(last.call.args) = n

\* the step is a call of op with n arguments
StepIs(op, n) ==
  /\ last'.call.op = op
  /\ Len(last'.call.args) = n
  /\ last'.work # last.work

\* the identifiers of the Section records of the heap
SectionIds(h) == {id \in 1..Len(h) : h[id].type = "section"}

\* the position of a record in the ordered line sequence, 0 if absent
PositionOf(ls, id) ==
  IF \E i \in 1..Len(ls) : ls[i] = id
  THEN CHOOSE i \in 1..Len(ls) : ls[i] = id
  ELSE 0

\* the section named name holds key (before the step)
SectionHasKey(name, key) ==
  /\ MapHas(sections, name)
  /\ MapHas(heap[MapGet(sections, name)].map, key)

(***************************************************************************)
(* C1: idempotence of the global form of set: a second set(k, v) with the  *)
(* same key and value does not change the number of lines, and the value   *)
(* stored for the global key k is v.                                       *)
(***************************************************************************)
C1_GlobalSetIdempotent ==
  [][(/\ LastIs("set", 2)
      /\ StepIs("set", 2)
      /\ last'.call.args = last.call.args)
     => (/\ Len(lines') = Len(lines)
         /\ MapHas(global', last.call.args[1])
         /\ heap'[MapGet(global', last.call.args[1])].val
              = last.call.args[2])]_vars

(***************************************************************************)
(* C2: set(section, key, value) on a key that exists in the section        *)
(* replaces only the value of that record: the lines, their order, every   *)
(* line number and every section end are as before.                        *)
(***************************************************************************)
C2_ExistingSectionKeyInPlace ==
  [][(/\ StepIs("set", 3)
      /\ SectionHasKey(last'.call.args[1], last'.call.args[2]))
     => (/\ lines' = lines
         /\ Len(heap') = Len(heap)
         /\ \A id \in 1..Len(heap) :
              /\ heap'[id].num = heap[id].num
              /\ heap[id].type = "section" => heap'[id].end = heap[id].end
         /\ LET id == MapGet(heap[MapGet(sections, last'.call.args[1])].map,
                             last'.call.args[2])
            IN heap'[id].val = last'.call.args[3])]_vars

(***************************************************************************)
(* C3: a set call that creates a new key (either form, the section         *)
(* existing or not) adds exactly one line, and every section whose end was *)
(* at or after the insertion line has its end increased by exactly one.    *)
(***************************************************************************)
\* the call of the step creates a key: the scope did not hold it
CreatesKey ==
  \/ /\ StepIs("set", 2)
     /\ ~MapHas(global, last'.call.args[1])
  \/ /\ StepIs("set", 3)
     /\ ~SectionHasKey(last'.call.args[1], last'.call.args[2])

\* the line at which the step inserted its Value record
InsertionLine ==
  LET new == {id \in (Len(heap) + 1)..Len(heap') : heap'[id].type = "value"}
  IN PositionOf(lines', CHOOSE id \in new : TRUE)

C3_NewKeyAddsOneLine ==
  [][CreatesKey
     => (/\ Len(lines') = Len(lines) + 1
         /\ \A id \in SectionIds(heap) :
              heap[id].end >= InsertionLine
                => heap'[id].end = heap[id].end + 1)]_vars

(***************************************************************************)
(* C5: set(sectionName, key, value) records key in the section named       *)
(* sectionName, creating it if absent, and leaves the global key mapping   *)
(* unchanged, for a string, a number, a boolean, null and undefined.       *)
(***************************************************************************)
C5_SectionFormForEveryValue ==
  [][StepIs("set", 3)
     => (/\ global' = global
         /\ MapHas(sections', last'.call.args[1])
         /\ LET sec == heap'[MapGet(sections', last'.call.args[1])]
            IN /\ MapHas(sec.map, last'.call.args[2])
               /\ heap'[MapGet(sec.map, last'.call.args[2])].val
                    = last'.call.args[3])]_vars

(***************************************************************************)
(* C6: after set calls on an empty instance, toObject has a property for   *)
(* every global key, holding the value of its latest set, and a property   *)
(* for every section, holding the latest value of each of its keys; none   *)
(* is lost, also when a global key and a section have the same name.       *)
(***************************************************************************)
C6_ToObjectRendersEveryEntry ==
  ghost.valid =>
    LET obj == toObject(Model)
    IN /\ \A k \in MapKeys(ghost.g) :
            MapHas(obj, k) /\ MapGet(obj, k) = MapGet(ghost.g, k)
       /\ \A sn \in MapKeys(ghost.s) :
            /\ MapHas(obj, sn)
            /\ MapGet(obj, sn).t = "object"
            /\ \A k \in MapKeys(MapGet(ghost.s, sn)) :
                 /\ MapHas(MapGet(obj, sn).v, k)
                 /\ MapGet(MapGet(obj, sn).v, k)
                      = MapGet(MapGet(ghost.s, sn), k)

(***************************************************************************)
(* C4: round trip: for every object of scalars and of one-level nested     *)
(* objects of scalars (an empty nested object included),                   *)
(* from(object).toObject() is deeply equal to the object, whatever the     *)
(* order of the properties.                                                *)
(***************************************************************************)
\* deep equality of two lists of properties, the order left aside
ObjectEq(a, b) ==
  /\ MapKeys(a) = MapKeys(b)
  /\ \A k \in MapKeys(a) :
       LET x == MapGet(a, k)
           y == MapGet(b, k)
       IN IF x.t = "object" /\ y.t = "object"
          THEN /\ MapKeys(x.v) = MapKeys(y.v)
               /\ \A j \in MapKeys(x.v) : MapGet(x.v, j) = MapGet(y.v, j)
          ELSE x = y

C4_FromToObjectRoundTrip ==
  (LastIs("from", 2) /\ last.call.args[1].t = "object")
    => ObjectEq(toObject(Model), last.call.args[1].v)

(***************************************************************************)
(* The text of a call as the properties read it: '\n', '\r' and '\r\n'     *)
(* are each one line terminator; a line is classified on its text with the *)
(* surrounding white space left out.                                       *)
(***************************************************************************)
SetMin(S) == CHOOSE x \in S : \A y \in S : x <= y
SetMax(S) == CHOOSE x \in S : \A y \in S : x >= y

\* the positions at which a line terminator starts
TermStarts(text) ==
  {i \in 1..Len(text) :
     /\ text[i] \in {LF, CR}
     /\ ~(text[i] = LF /\ i > 1 /\ text[i - 1] = CR)}

LineCount(text) == Cardinality(TermStarts(text)) + 1

\* the position at which the n-th line terminator starts
TermStart(text, n) ==
  CHOOSE i \in TermStarts(text) :
    Cardinality({j \in TermStarts(text) : j < i}) = n - 1

\* the position at which the terminator that starts at i ends
TermEnd(text, i) ==
  IF text[i] = CR /\ i < Len(text) /\ text[i + 1] = LF THEN i + 1 ELSE i

\* the text of line n, without its terminator
LineText(text, n) ==
  SubSeq(text,
         IF n = 1 THEN 1 ELSE TermEnd(text, TermStart(text, n - 1)) + 1,
         IF n = LineCount(text) THEN Len(text)
         ELSE TermStart(text, n) - 1)

Strip(line) ==
  LET ps == {p \in 1..Len(line) : line[p] \notin WhiteSpace}
  IN IF ps = {} THEN <<>> ELSE SubSeq(line, SetMin(ps), SetMax(ps))

\* the lines of the text, stripped
ClaimLines(text) ==
  [n \in 1..LineCount(text) |-> Strip(LineText(text, n))]

IsCommentLine(t) ==
  \/ t = <<>>
  \/ t[1] \in {"#", ";"}
  \/ Len(t) >= 2 /\ t[1] = "/" /\ t[2] = "/"

IsHeaderLine(t) == ~IsCommentLine(t) /\ t[1] = "["

HeaderName(t) == SubSeq(t, 2, Len(t) - 1)

HasAssignment(t) == \E p \in 1..Len(t) : t[p] = "="

FirstAssignment(t) == SetMin({p \in 1..Len(t) : t[p] = "="})

\* a header that does not end with ']' or has an empty or blank name, a
\* line that is neither a comment nor a header and has no '=', a line that
\* starts with '='
Malformed(t) ==
  /\ ~IsCommentLine(t)
  /\ IF t[1] = "["
     THEN \/ t[Len(t)] # "]"
          \/ \A p \in 2..(Len(t) - 1) : t[p] \in WhiteSpace
     ELSE ~HasAssignment(t) \/ t[1] = "="

IsKeyValueLine(t) == ~IsCommentLine(t) /\ ~IsHeaderLine(t) /\ ~Malformed(t)

KeyOf(t) == Strip(SubSeq(t, 1, FirstAssignment(t) - 1))

\* a space on both sides of the first '='
PrettyLine(t) ==
  LET eq == FirstAssignment(t)
  IN /\ eq > 1 /\ t[eq - 1] = " "
     /\ eq < Len(t) /\ t[eq + 1] = " "

\* below, ts is ClaimLines of the text of a call
MalformedLines(ts) == {n \in 1..Len(ts) : Malformed(ts[n])}

\* the lines a call of parse went through before it returned or threw
LinesDone(ts, err) == IF err.line = 0 THEN Len(ts) ELSE err.line - 1

KeyValueLines(ts, err) ==
  {n \in 1..LinesDone(ts, err) : IsKeyValueLine(ts[n])}

\* the header line a line belongs to, 0 for the global scope
HeaderOf(ts, n) ==
  LET hs == {j \in 1..(n - 1) : IsHeaderLine(ts[j])}
  IN IF hs = {} THEN 0 ELSE SetMax(hs)

(***************************************************************************)
(* C7: parse throws a SyntaxError exactly when some line of the text is    *)
(* malformed, and the line it reports is the number of the first malformed *)
(* line, '\n', '\r' and '\r\n' each ending one line.                       *)
(***************************************************************************)
C7_ParseErrorIsFirstMalformedLine ==
  LastIs("parse", 1) =>
    LET bad == MalformedLines(ClaimLines(last.call.args[1]))
    IN IF bad = {} THEN last.err = NoError
       ELSE last.err.kind # "none" /\ last.err.line = SetMin(bad)

\* a text whose second line is malformed and follows a '\r\n'
C7_Witness ==
  /\ LastIs("parse", 1)
  /\ last.err.line = 2
  /\ \E i \in 1..(Len(last.call.args[1]) - 1) :
       last.call.args[1][i] = CR /\ last.call.args[1][i + 1] = LF

(***************************************************************************)
(* C8: a parse that throws at line n has added none of the lines 1..n-1:   *)
(* the line sequence, the global keys and the sections are as before.      *)
(***************************************************************************)
C8_FailedParseLeavesNoLines ==
  [][(StepIs("parse", 1) /\ last'.err # NoError)
     => (lines' = lines /\ global' = global /\ sections' = sections)]_vars

(***************************************************************************)
(* C9: section scoping in parse: a key/value line is attached to the most  *)
(* recent header before it in the text, or to the global scope when there  *)
(* is none; the same key under two section names gives two independent     *)
(* Value records and no global key.                                        *)
(***************************************************************************)
\* the record parse pushed for line n of its text
ParsedId(n) == lines[last.base + n]

C9_ParseSectionScoping ==
  LastIs("parse", 1) =>
    \A ts \in {ClaimLines(last.call.args[1])} :
      LET kvs == KeyValueLines(ts, last.err)
          \* the last line of the scope of n that sets the key of n
          Latest(n) ==
            SetMax({j \in kvs : /\ HeaderOf(ts, j) = HeaderOf(ts, n)
                                /\ KeyOf(ts[j]) = KeyOf(ts[n])})
      IN /\ \A n \in kvs :
              LET rec == heap[ParsedId(n)]
                  key == KeyOf(ts[n])
                  h == HeaderOf(ts, n)
              IN /\ rec.type = "value"
                 /\ rec.key = key
                 /\ IF h = 0
                    THEN /\ rec.sec = Undefined
                         /\ MapHas(global, key)
                         /\ MapGet(global, key) = ParsedId(Latest(n))
                    ELSE /\ rec.sec = Str(HeaderName(ts[h]))
                         /\ heap[ParsedId(h)].type = "section"
                         /\ heap[ParsedId(h)].sec = HeaderName(ts[h])
                         /\ MapHas(heap[ParsedId(h)].map, key)
                         /\ MapGet(heap[ParsedId(h)].map, key)
                              = ParsedId(Latest(n))
                         /\ \A g \in MapKeys(global) :
                              MapGet(global, g) # ParsedId(n)
         /\ \A n1, n2 \in kvs :
              HeaderOf(ts, n1) # HeaderOf(ts, n2)
                => ParsedId(n1) # ParsedId(n2)

\* one key under two headers of different names, parsed into an empty
\* instance
C9_Witness ==
  /\ LastIs("parse", 1)
  /\ last.base = 0
  /\ last.err = NoError
  /\ global = <<>>
  /\ \E ts \in {ClaimLines(last.call.args[1])} :
       \E n1, n2 \in KeyValueLines(ts, last.err) :
         /\ HeaderOf(ts, n1) # 0
         /\ HeaderOf(ts, n2) # 0
         /\ HeaderName(ts[HeaderOf(ts, n1)]) # HeaderName(ts[HeaderOf(ts, n2)])
         /\ KeyOf(ts[n1]) = KeyOf(ts[n2])

(***************************************************************************)
(* C10: pretty is inferred once: a parse on an instance whose pretty is    *)
(* not set sets it from the first key/value line only (a space on both     *)
(* sides of the assignment mark); no later line and no later parse changes *)
(* it, and a configured pretty is never changed.                           *)
(***************************************************************************)
C10_PrettyInferredOnce ==
  LastIs("parse", 1) =>
    \A ts \in {ClaimLines(last.call.args[1])} :
      LET kvs == KeyValueLines(ts, last.err)
      IN formatting.pretty =
           IF last.pretty # Undefined THEN last.pretty
           ELSE IF kvs = {} THEN Undefined
           ELSE Bool(PrettyLine(ts[SetMin(kvs)]))

\* pretty came out true from a first pretty line followed by a line
\* that is not pretty
C10_Witness ==
  /\ LastIs("parse", 1)
  /\ last.pretty = Undefined
  /\ formatting.pretty = Bool(TRUE)
  /\ \E ts \in {ClaimLines(last.call.args[1])} :
       LET kvs == KeyValueLines(ts, last.err)
       IN /\ kvs # {}
          /\ PrettyLine(ts[SetMin(kvs)])
          /\ \E n \in kvs : ~PrettyLine(ts[n])

(***************************************************************************)
(* C11: default coercion of parse: the trimmed raw value becomes a number  *)
(* only when the whole of it is a numeric literal without a double quote   *)
(* (the empty value is not a number); otherwise "null" becomes null,       *)
(* "true" and "false" become booleans, and any other value stays a string, *)
(* with one pair of surrounding double quotes stripped when it has one.    *)
(***************************************************************************)
\* the numeric literals that can be written with the characters of the model
IsNumericLiteral(s) == s # <<>> /\ \A i \in 1..Len(s) : s[i] \in {"0", "1"}

HasQuote(s) == \E i \in 1..Len(s) : s[i] = "\""

\* a string within a pair of double quotes
IsQuoted(s) == Len(s) >= 2 /\ s[1] = "\"" /\ s[Len(s)] = "\""

\* the raw value of the line of the last call, trimmed
RawValue == Strip(SubSeq(last.call.args[1], 3, Len(last.call.args[1])))

\* C11: the value stored for the line k=<raw> follows the coercion rules
C11_DefaultCoercion ==
  (LastIs("parse", 1) /\ last.err = NoError /\ Len(lines) = 1) =>
    LET raw == RawValue
        val == heap[lines[1]].val
    IN /\ val.t = "number" <=> (IsNumericLiteral(raw) /\ ~HasQuote(raw))
       /\ val.t # "number" =>
            IF raw = <<"n", "u", "l", "l">> THEN val = Null
            ELSE IF raw = <<"t", "r", "u", "e">> THEN val = Bool(TRUE)
            ELSE IF raw = <<"f", "a", "l", "s", "e">> THEN val = Bool(FALSE)
            ELSE IF IsQuoted(raw)
            THEN val = Str(SubSeq(raw, 2, Len(raw) - 1))
            ELSE val = Str(raw)

(***************************************************************************)
(* C12: line-number contiguity: in every state reached by parse and set    *)
(* calls from an empty instance, the record at position i of the line      *)
(* sequence has line number i.                                             *)
(***************************************************************************)
C12_LineNumbersContiguous ==
  \A i \in 1..Len(lines) : heap[lines[i]].num = i

(***************************************************************************)
(* C13: section bounds: for every Section record, whatever its name, end   *)
(* is the line number of the last line of the section (the header when the *)
(* section has no key, else its last Value line), end is at most the       *)
(* length of the document, and every Value line of the section has its     *)
(* line number within [num, end].                                          *)
(***************************************************************************)
\* the Value records of the line sequence that the Section record id owns:
\* those of its name between its header and the next header
OwnedValues(id) ==
  LET p == PositionOf(lines, id)
      nexts == {q \in (p + 1)..Len(lines) : heap[lines[q]].type = "section"}
      stop == IF nexts = {} THEN Len(lines) + 1 ELSE SetMin(nexts)
  IN {lines[q] : q \in {r \in (p + 1)..(stop - 1) :
                          /\ heap[lines[r]].type = "value"
                          /\ heap[lines[r]].sec = Str(heap[id].sec)}}
       \cup {heap[id].map[i][2] : i \in 1..Len(heap[id].map)}

\* C13: end of every Section record is the number of its last line
C13_SectionBounds ==
  \A id \in SectionIds(heap) :
    PositionOf(lines, id) # 0 =>
      LET sec == heap[id]
          vals == OwnedValues(id)
      IN /\ sec.end = SetMax({sec.num} \cup {heap[v].num : v \in vals})
         /\ sec.end <= Len(lines)
         /\ \A v \in vals : sec.num <= heap[v].num /\ heap[v].num <= sec.end

(***************************************************************************)
(* C14: keys are unique per scope in the document: the line sequence holds *)
(* at most one Value record for each pair of a scope (the global scope or  *)
(* one section name) and a key.                                            *)
(***************************************************************************)
C14_KeysUniquePerScope ==
  \A i, j \in 1..Len(lines) :
    (/\ i < j
     /\ heap[lines[i]].type = "value"
     /\ heap[lines[j]].type = "value")
      => ~(/\ heap[lines[i]].sec = heap[lines[j]].sec
           /\ heap[lines[i]].key = heap[lines[j]].key)

(***************************************************************************)
(* C15: globals before sections: every Value line without an owning        *)
(* section has a smaller line number than the first Section line of the    *)
(* line sequence.                                                          *)
(***************************************************************************)
C15_GlobalsBeforeSections ==
  \A i, j \in 1..Len(lines) :
    (/\ heap[lines[i]].type = "value"
     /\ heap[lines[i]].sec = Undefined
     /\ heap[lines[j]].type = "section"
     /\ \A q \in 1..(j - 1) : heap[lines[q]].type # "section")
      => heap[lines[i]].num < heap[lines[j]].num

(***************************************************************************)
(* C16: index/list consistency: every Value record reachable from the      *)
(* global keys or from the keys of a section of the section mapping, and   *)
(* every Section record of the section mapping, is the record stored in    *)
(* the line sequence at the position given by its own line number.         *)
(***************************************************************************)
\* the record id is the one at the position its line number gives
AtOwnLine(id) ==
  /\ heap[id].num \in 1..Len(lines)
  /\ lines[heap[id].num] = id

\* C16: every indexed record is at the position its line number gives
C16_IndexListConsistency ==
  /\ \A i \in 1..Len(global) : AtOwnLine(global[i][2])
  /\ \A i \in 1..Len(sections) :
       /\ AtOwnLine(sections[i][2])
       /\ \A k \in 1..Len(heap[sections[i][2]].map) :
            AtOwnLine(heap[sections[i][2]].map[k][2])

(***************************************************************************)
(* C17: new key in an existing section: set(section, key, value) with a    *)
(* key the section does not hold inserts the new Value line at line        *)
(* old_end + 1 of the section, increments the section's end by one,        *)
(* increments by one the line number of every line that was at or after    *)
(* that position and the end of every Section among them, leaves the       *)
(* numbers and ends of the earlier lines unchanged, and keeps the relative *)
(* order of the lines that were there.                                     *)
(***************************************************************************)
\* the line sequence without the record id
Without(ls, id) == SelectSeq(ls, LAMBDA x : x # id)

\* the last call was set(section, key, value) on a section that was there,
\* for a key the section did not hold
NewKeyInSection ==
  /\ LastIs("set", 3)
  /\ MapHas(last.before.sections, last.call.args[1])
  /\ ~MapHas(last.before.heap[MapGet(last.before.sections,
                                      last.call.args[1])].map,
              last.call.args[2])

\* C17: the new key of an existing section goes to line old_end + 1
C17_NewKeyInExistingSection ==
  NewKeyInSection =>
    LET b == last.before
        sid == MapGet(b.sections, last.call.args[1])
        oldEnd == b.heap[sid].end
        n == Len(b.heap) + 1
    IN /\ Len(heap) = n
       /\ heap[n].type = "value"
       /\ heap[n].key = last.call.args[2]
       /\ heap[n].num = oldEnd + 1
       /\ Len(lines) >= oldEnd + 1
       /\ lines[oldEnd + 1] = n
       /\ heap[sid].end = oldEnd + 1
       /\ Without(lines, n) = b.lines
       /\ \A p \in 1..Len(b.lines) :
            LET id == b.lines[p]
                d == IF p >= oldEnd + 1 THEN 1 ELSE 0
            IN /\ heap[id].num = b.heap[id].num + d
               /\ (heap[id].type = "section" /\ id # sid)
                    => heap[id].end = b.heap[id].end + d

(***************************************************************************)
(* C18: new global key: set(key, value) for a key that is not a global key *)
(* inserts the new Value line immediately before the first Section line,   *)
(* or as the last line when there is no Section line (line 1 of an empty   *)
(* document), and the number of every following line and the end of every  *)
(* following section grow by exactly one.                                  *)
(***************************************************************************)
\* the last call was set(key, value) for a key that was not a global key
NewGlobalKey ==
  /\ LastIs("set", 2)
  /\ ~MapHas(last.before.global, last.call.args[1])

\* the position of the first Section line the call found, 0 if none
FirstSectionBefore ==
  LET b == last.before
      ps == {p \in 1..Len(b.lines) : b.heap[b.lines[p]].type = "section"}
  IN IF ps = {} THEN 0 ELSE SetMin(ps)

\* C18: the new global key goes right before the first Section line
C18_NewGlobalKey ==
  NewGlobalKey =>
    LET b == last.before
        n == Len(b.heap) + 1
        at == IF FirstSectionBefore = 0 THEN Len(b.lines) + 1
              ELSE FirstSectionBefore
    IN /\ Len(heap) = n
       /\ heap[n].type = "value"
       /\ heap[n].sec = Undefined
       /\ heap[n].key = last.call.args[1]
       /\ heap[n].val = last.call.args[2]
       /\ heap[n].num = at
       /\ MapGet(global, last.call.args[1]) = n
       /\ lines = SubSeq(b.lines, 1, at - 1) \o <<n>>
                    \o SubSeq(b.lines, at, Len(b.lines))
       /\ \A p \in 1..Len(b.lines) :
            LET id == b.lines[p]
                d == IF p >= at THEN 1 ELSE 0
            IN /\ heap[id].num = b.heap[id].num + d
               /\ heap[id].type = "section"
                    => heap[id].end = b.heap[id].end + d

\* a new global key set on a document with something before its first
\* Section line and a second Section line after it
C18_Witness ==
  /\ NewGlobalKey
  /\ FirstSectionBefore > 1
  /\ \E p \in (FirstSectionBefore + 1)..Len(last.before.lines) :
       last.before.heap[last.before.lines[p]].type = "section"

(***************************************************************************)
(* C19: new section: set(section, key, value) for a name that is not in    *)
(* the section mapping appends the Section header as the last line, with   *)
(* line number = former length + 1 and end initialised to that number, and *)
(* leaves the lines that were there unchanged; the new key is the line     *)
(* right after the header and the section's end is that line's number.     *)
(***************************************************************************)
\* the last call was set(section, key, value) for a name that was not in
\* the section mapping
NewSection ==
  /\ LastIs("set", 3)
  /\ ~MapHas(last.before.sections, last.call.args[1])

\* C19: the new section is appended, its key right after its header
C19_NewSection ==
  NewSection =>
    LET b == last.before
        len == Len(b.lines)
        n == Len(b.heap) + 1
    IN /\ Len(heap) = n + 1
       /\ SubSeq(heap, 1, n - 1) = b.heap
       /\ lines = b.lines \o <<n, n + 1>>
       /\ heap[n].type = "section"
       /\ heap[n].sec = last.call.args[1]
       /\ heap[n].num = len + 1
       /\ heap[n].end = len + 2
       /\ heap[n].map = <<<<last.call.args[2], n + 1>>>>
       /\ MapHas(sections, last.call.args[1])
       /\ MapGet(sections, last.call.args[1]) = n
       /\ heap[n + 1].type = "value"
       /\ heap[n + 1].key = last.call.args[2]
       /\ heap[n + 1].val = last.call.args[3]
       /\ heap[n + 1].num = len + 2

(***************************************************************************)
(* C20: duplicate section names in parse: when the text has two headers of *)
(* one name, both Section records stay in the line sequence, the section   *)
(* mapping points at the most recent header only, the keys under the       *)
(* earlier header are not reachable by the name (toObject and set see the  *)
(* newest block only), and a later set on that name inserts after the end  *)
(* of the newest block.                                                    *)
(***************************************************************************)
\* the header lines of the text that parse went through
HeaderLines(ts, err) ==
  {n \in 1..LinesDone(ts, err) : IsHeaderLine(ts[n])}

\* the last header line of the name of header line n
NewestHeader(ts, err, n) ==
  SetMax({j \in HeaderLines(ts, err) : HeaderName(ts[j]) = HeaderName(ts[n])})

\* the text parsed into an empty instance had two headers of one name
DuplicateParsed(ts) ==
  \E n1, n2 \in HeaderLines(ts, last.err) :
    n1 < n2 /\ HeaderName(ts[n1]) = HeaderName(ts[n2])

\* the positions of the Section records of the name in the lines found
BlocksBefore(name) ==
  {p \in 1..Len(last.before.lines) :
     /\ last.before.heap[last.before.lines[p]].type = "section"
     /\ last.before.heap[last.before.lines[p]].sec = name}

\* after parse
C20_AfterParse ==
  (LastIs("parse", 1) /\ last.base = 0) =>
    \A ts \in {ClaimLines(last.call.args[1])} :
      \A n \in HeaderLines(ts, last.err) :
        LET name == HeaderName(ts[n])
            newest == NewestHeader(ts, last.err, n)
            keys == {KeyOf(ts[j]) : j \in {i \in KeyValueLines(ts, last.err) :
                                             HeaderOf(ts, i) = newest}}
        IN /\ heap[lines[n]].type = "section"
           /\ heap[lines[n]].sec = name
           /\ MapGet(sections, name) = lines[newest]
           /\ MapKeys(heap[lines[newest]].map) = keys
           /\ MapKeys(MapGet(toObject(Model), name).v) = keys

\* after a set on a name that had two Section records
C20_AfterSet ==
  (LastIs("set", 3) /\ Cardinality(BlocksBefore(last.call.args[1])) >= 2) =>
    LET b == last.before
        name == last.call.args[1]
        key == last.call.args[2]
        sid == MapGet(b.sections, name)
        n == Len(b.heap) + 1
    IN /\ PositionOf(b.lines, sid) = SetMax(BlocksBefore(name))
       /\ IF MapHas(b.heap[sid].map, key)
          THEN /\ lines = b.lines
               /\ heap[MapGet(b.heap[sid].map, key)].val = last.call.args[3]
          ELSE /\ Len(heap) = n
               /\ heap[n].key = key
               /\ heap[n].val = last.call.args[3]
               /\ MapGet(heap[sid].map, key) = n
               /\ lines = SubSeq(b.lines, 1, b.heap[sid].end) \o <<n>>
                            \o SubSeq(b.lines, b.heap[sid].end + 1,
                                      Len(b.lines))
               /\ b.heap[sid].end >=
                    SetMax({PositionOf(b.lines, sid)}
                             \cup {PositionOf(b.lines, b.heap[sid].map[i][2]) :
                                     i \in 1..Len(b.heap[sid].map)})

\* C20: duplicate section names: both clauses, after parse and after set
C20_DuplicateSectionNames == C20_AfterParse /\ C20_AfterSet

====
